---- MODULE Spec2Model ----
(***************************************************************************)
(* PDF outline extraction: the heading/title inference engine of           *)
(* process_pdfs.py (the batch extractor, suffix _pp) and of                *)
(* extractor/views.py (the web extractor, suffix _vw).                     *)
(*                                                                         *)
(* Text is modelled by strings; a line is classified by its characters,   *)
(* as the code's regular expressions and str methods do.                   *)
(***************************************************************************)
EXTENDS Integers, Sequences, FiniteSets, TLC

(***************************************************************************)
(* Bounds of the model.                                                    *)
(***************************************************************************)
MaxPages == 2
MaxLineLen == 7
MaxTextLen == 8
MaxGlyphs == 4
MaxTime == 2

(***************************************************************************)
(* Characters and Python's str methods.                                    *)
(***************************************************************************)
UpperSeq == "ABCDEFGHIJKLMNOPQRSTUVWXYZ"
LowerSeq == "abcdefghijklmnopqrstuvwxyz"
DigitSeq == "0123456789"

Ch(s, i) == SubSeq(s, i, i)

CharsOf(s) == {Ch(s, i) : i \in 1..Len(s)}

Upper == CharsOf(UpperSeq)
Lower == CharsOf(LowerSeq)
Digit == CharsOf(DigitSeq)
Space == {" ", "\t", "\n", "\r", "\f"}

None == "None"

\* str.lower() of one character
LowerCh(c) ==
    IF c \in Upper
        THEN Ch(LowerSeq, CHOOSE i \in 1..Len(UpperSeq) : Ch(UpperSeq, i) = c)
        ELSE c

RECURSIVE lower(_)
lower(s) == IF s = "" THEN "" ELSE LowerCh(Ch(s, 1)) \o lower(SubSeq(s, 2, Len(s)))

\* str.isdigit(): non-empty and every character a digit
isdigit(s) == s # "" /\ \A i \in 1..Len(s) : Ch(s, i) \in Digit

\* str.isupper(): at least one cased character and no lower-case one
isupper(s) ==
    /\ \E i \in 1..Len(s) : Ch(s, i) \in Upper
    /\ \A i \in 1..Len(s) : Ch(s, i) \notin Lower

\* str.istitle(): upper-case characters only after uncased ones, lower-case
\* characters only after cased ones, and at least one cased character
istitle(s) ==
    /\ \E i \in 1..Len(s) : Ch(s, i) \in Upper \cup Lower
    /\ \A i \in 1..Len(s) :
          LET prevCased == i > 1 /\ Ch(s, i - 1) \in Upper \cup Lower
          IN  /\ Ch(s, i) \in Upper => ~prevCased
              /\ Ch(s, i) \in Lower => prevCased

\* needle in hay
contains(hay, needle) ==
    \E i \in 1..(Len(hay) - Len(needle) + 1) :
        SubSeq(hay, i, i + Len(needle) - 1) = needle

\* str.strip()
RECURSIVE lstrip(_)
lstrip(s) ==
    IF s # "" /\ Ch(s, 1) \in Space THEN lstrip(SubSeq(s, 2, Len(s))) ELSE s

RECURSIVE rstrip(_)
rstrip(s) ==
    IF s # "" /\ Ch(s, Len(s)) \in Space THEN rstrip(SubSeq(s, 1, Len(s) - 1)) ELSE s

strip(s) == rstrip(lstrip(s))

\* text.split('\n'): the pieces between newlines, empty pieces kept
RECURSIVE splitFrom(_, _, _)
splitFrom(s, start, i) ==
    IF i > Len(s) THEN <<SubSeq(s, start, Len(s))>>
    ELSE IF Ch(s, i) = "\n"
        THEN <<SubSeq(s, start, i - 1)>> \o splitFrom(s, i + 1, i + 1)
        ELSE splitFrom(s, start, i + 1)

split(s) == splitFrom(s, 1, 1)

(***************************************************************************)
(* re.match: a pattern is a sequence of items, each a character class that *)
(* is matched once or (plus) one or more times, anchored at the start of   *)
(* the line and, when anchored is set, at its end ($).                     *)
(***************************************************************************)
One(c) == [cls |-> c, plus |-> FALSE]
Plus(c) == [cls |-> c, plus |-> TRUE]

RECURSIVE MatchFrom(_, _, _, _)
MatchFrom(p, k, s, j) ==
    IF k > Len(p.items)
        THEN \/ ~p.anchored
             \/ j = Len(s) + 1
             \/ (j = Len(s) /\ Ch(s, j) = "\n")
        ELSE /\ j <= Len(s)
             /\ Ch(s, j) \in p.items[k].cls
             /\ \/ MatchFrom(p, k + 1, s, j + 1)
                \/ (p.items[k].plus /\ MatchFrom(p, k, s, j + 1))

re_match(p, s) == MatchFrom(p, 1, s, 1)

\* ^\d+\. , a one-level pattern that stops at the dot
PatNum1Loose == [items |-> <<Plus(Digit), One({"."})>>, anchored |-> FALSE]

\* ^\d+\.\s+[A-Z]   ^\d+\.\d+\s+[A-Z]   ^\d+\.\d+\.\d+\s+[A-Z]
PatNum1 ==
    [items |-> <<Plus(Digit), One({"."}), Plus(Space), One(Upper)>>,
     anchored |-> FALSE]
PatNum2 ==
    [items |-> <<Plus(Digit), One({"."}), Plus(Digit), Plus(Space), One(Upper)>>,
     anchored |-> FALSE]
PatNum3 ==
    [items |-> <<Plus(Digit), One({"."}), Plus(Digit), One({"."}), Plus(Digit),
                 Plus(Space), One(Upper)>>,
     anchored |-> FALSE]

\* ^\d+\.\s+   ^\d+\.\d+\s+   ^\d+\.\d+\.\d+\s+
PatNum1Bare ==
    [items |-> <<Plus(Digit), One({"."}), Plus(Space)>>, anchored |-> FALSE]
PatNum2Bare ==
    [items |-> <<Plus(Digit), One({"."}), Plus(Digit), Plus(Space)>>,
     anchored |-> FALSE]
PatNum3Bare ==
    [items |-> <<Plus(Digit), One({"."}), Plus(Digit), One({"."}), Plus(Digit),
                 Plus(Space)>>,
     anchored |-> FALSE]

\* ^[A-Z][A-Z\s]+[A-Z]$
PatAllCaps ==
    [items |-> <<One(Upper), Plus(Upper \cup Space), One(Upper)>>,
     anchored |-> TRUE]

\* ^[IVX]+\.\s+[A-Z]
PatRoman ==
    [items |-> <<Plus({"I", "V", "X"}), One({"."}), Plus(Space), One(Upper)>>,
     anchored |-> FALSE]

\* ^[A-Z]\.\s+[A-Z]
PatLetter ==
    [items |-> <<One(Upper), One({"."}), Plus(Space), One(Upper)>>,
     anchored |-> FALSE]

\* ^\d+$
PatDigits == [items |-> <<Plus(Digit)>>, anchored |-> TRUE]

\* \s+\d+ , the tail of ^(Chapter|Section|Part)\s+\d+
PatSpaceNum == [items |-> <<Plus(Space), Plus(Digit)>>, anchored |-> FALSE]

\* re.match(r'^(Chapter|Section|Part)\s+\d+', line, re.IGNORECASE)
MatchChapter(line) ==
    \E kw \in {"chapter", "section", "part"} :
        /\ Len(line) > Len(kw)
        /\ lower(SubSeq(line, 1, Len(kw))) = kw
        /\ MatchFrom(PatSpaceNum, 1, line, Len(kw) + 1)

(***************************************************************************)
(* Results of calls that may raise, and the objects the backends hand out. *)
(*                                                                         *)
(* A page object answers the calls made on it during one invocation:       *)
(* page.extract_text is the sequence of results of its successive          *)
(* extract_text() calls, page.chars the result of reading its glyphs.      *)
(***************************************************************************)
Ok(v) == [raised |-> FALSE, value |-> v]
Raised == [raised |-> TRUE]

\* the page object after one extract_text() call has been made on it
AfterCall(page) == [page EXCEPT !.extract_text = Tail(@)]

Min(S) == CHOOSE m \in S : \A n \in S : m <= n
Max(S) == CHOOSE m \in S : \A n \in S : m >= n

Heading(level, text, page_num) == [level |-> level, text |-> text, page |-> page_num]

\* the stripped lines of a text, in order
Lines(text) == LET ls == split(text) IN [i \in 1..Len(ls) |-> strip(ls[i])]

(***************************************************************************)
(* process_pdfs.py                                                         *)
(***************************************************************************)

\* the title loop without its two tests for a line of digits
title_of_text_unguarded(text) ==
    LET ls == Lines(text)
        ok == {i \in 1..Len(ls) : ls[i] # "" /\ Len(ls[i]) > 3}
    IN  IF ok = {} THEN "" ELSE ls[Min(ok)]

\* the title loop of extract_title_from_page: the first stripped line that
\* is non-empty, longer than 3 and not made of digits only
title_of_text_pp(text) ==
    LET ls == Lines(text)
        ok == {i \in 1..Len(ls) :
                  /\ ls[i] # "" /\ Len(ls[i]) > 3 /\ ~isdigit(ls[i])
                  /\ ~re_match(PatDigits, ls[i])}
    IN  IF ok = {} THEN "" ELSE ls[Min(ok)]

extract_title_from_page_pp(page) ==
    LET text == page.extract_text[1]
    IN  IF text.raised THEN ""
        ELSE IF text.value = "" THEN ""
        ELSE title_of_text_pp(text.value)

\* font_sizes: glyph size -> number of glyphs of that size
font_sizes(chars) ==
    LET sized == {i \in 1..Len(chars) : "size" \in DOMAIN chars[i]}
    IN  [sz \in {chars[i].size : i \in sized} |->
            Cardinality({i \in sized : chars[i].size = sz})]

\* sorted(font_sizes.keys(), reverse=True)
RECURSIVE sorted_desc(_)
sorted_desc(S) ==
    IF S = {} THEN <<>> ELSE <<Max(S)>> \o sorted_desc(S \ {Max(S)})

sorted_sizes_of(chars) == sorted_desc(DOMAIN font_sizes(chars))

HeadingWords1 == {"introduction", "conclusion", "overview", "summary", "abstract"}
HeadingWords2 == {"method", "result", "discussion", "analysis"}

\* title case without the H1 keywords: every title-case line is H2
detect_heading_level_no_keywords(line, sorted_sizes) ==
    IF re_match(PatNum1, line) THEN "H1"
    ELSE IF re_match(PatNum2, line) THEN "H2"
    ELSE IF re_match(PatNum3, line) THEN "H3"
    ELSE IF MatchChapter(line) THEN "H1"
    ELSE IF isupper(line) /\ 4 <= Len(line) /\ Len(line) <= 100 THEN "H1"
    ELSE IF istitle(line) /\ 5 <= Len(line) /\ Len(line) <= 100 THEN "H2"
    ELSE IF re_match(PatRoman, line) THEN "H1"
    ELSE IF re_match(PatLetter, line) THEN "H2"
    ELSE None

\* a closing keyword rule: a line containing one of the H1 words is H2
detect_heading_level_keyword_rule(line, sorted_sizes) ==
    IF re_match(PatNum1, line) THEN "H1"
    ELSE IF re_match(PatNum2, line) THEN "H2"
    ELSE IF re_match(PatNum3, line) THEN "H3"
    ELSE IF MatchChapter(line) THEN "H1"
    ELSE IF isupper(line) /\ 4 <= Len(line) /\ Len(line) <= 100 THEN "H1"
    ELSE IF istitle(line) /\ 5 <= Len(line) /\ Len(line) <= 100
        THEN IF \E w \in HeadingWords1 : contains(lower(line), w) THEN "H1"
             ELSE "H2"
    ELSE IF re_match(PatRoman, line) THEN "H1"
    ELSE IF re_match(PatLetter, line) THEN "H2"
    ELSE IF \E w \in HeadingWords1 : contains(lower(line), w) THEN "H2"
    ELSE None

detect_heading_level_pp(line, sorted_sizes) ==
    IF re_match(PatNum1, line) THEN "H1"
    ELSE IF re_match(PatNum2, line) THEN "H2"
    ELSE IF re_match(PatNum3, line) THEN "H3"
    ELSE IF MatchChapter(line) THEN "H1"
    ELSE IF isupper(line) /\ 4 <= Len(line) /\ Len(line) <= 100 THEN "H1"
    ELSE IF istitle(line) /\ 5 <= Len(line) /\ Len(line) <= 100
        THEN IF \E w \in HeadingWords1 : contains(lower(line), w) THEN "H1"
             ELSE IF \E w \in HeadingWords2 : contains(lower(line), w) THEN "H2"
             ELSE "H2"
    ELSE IF re_match(PatRoman, line) THEN "H1"
    ELSE IF re_match(PatLetter, line) THEN "H2"
    ELSE None

\* all-caps lines accepted from length 3
fallback_level_short_caps(line) ==
    IF re_match(PatAllCaps, line) /\ 3 <= Len(line) /\ Len(line) <= 100 THEN "H1"
    ELSE IF re_match(PatNum1, line) THEN "H1"
    ELSE IF re_match(PatNum2, line) THEN "H2"
    ELSE IF re_match(PatNum3, line) THEN "H3"
    ELSE None

\* the if/elif chain of extract_headings_fallback
fallback_level_pp(line) ==
    IF re_match(PatAllCaps, line) /\ 4 <= Len(line) /\ Len(line) <= 100 THEN "H1"
    ELSE IF re_match(PatNum1, line) THEN "H1"
    ELSE IF re_match(PatNum2, line) THEN "H2"
    ELSE IF re_match(PatNum3, line) THEN "H3"
    ELSE None

extract_headings_fallback_pp(page, page_num) ==
    LET text == page.extract_text[1]
    IN  IF text.raised THEN <<>>
        ELSE IF text.value = "" THEN <<>>
        ELSE LET ls == Lines(text.value)
                 all == [i \in 1..Len(ls) |->
                            Heading(fallback_level_pp(ls[i]), ls[i], page_num)]
             IN  SelectSeq(all, LAMBDA h :
                     h.text # "" /\ Len(h.text) >= 3 /\ h.level # None)

\* every line kept, whether detect_heading_level found a level or not
extract_headings_from_page_unfiltered(page, page_num) ==
    LET text == page.extract_text[1]
        reduced == [raised |-> FALSE, used |-> "reduced",
                    value |-> extract_headings_fallback_pp(AfterCall(page), page_num)]
    IN  IF text.raised THEN reduced
        ELSE IF text.value = "" THEN [raised |-> FALSE, used |-> "primary", value |-> <<>>]
        ELSE IF page.chars.raised THEN reduced
        ELSE LET sorted_sizes == sorted_sizes_of(page.chars.value)
                 ls == Lines(text.value)
                 all == [i \in 1..Len(ls) |->
                            Heading(detect_heading_level_pp(ls[i], sorted_sizes),
                                    ls[i], page_num)]
             IN  [raised |-> FALSE, used |-> "primary",
                  value |-> SelectSeq(all, LAMBDA h : h.text # "" /\ Len(h.text) >= 3)]

\* used: the cascade that built the page's headings
extract_headings_from_page_pp(page, page_num) ==
    LET text == page.extract_text[1]
        reduced == [raised |-> FALSE, used |-> "reduced",
                    value |-> extract_headings_fallback_pp(AfterCall(page), page_num)]
    IN  IF text.raised THEN reduced
        ELSE IF text.value = "" THEN [raised |-> FALSE, used |-> "primary", value |-> <<>>]
        ELSE IF page.chars.raised THEN reduced
        ELSE LET sorted_sizes == sorted_sizes_of(page.chars.value)
                 ls == Lines(text.value)
                 all == [i \in 1..Len(ls) |->
                            Heading(detect_heading_level_pp(ls[i], sorted_sizes),
                                    ls[i], page_num)]
             IN  [raised |-> FALSE, used |-> "primary",
                  value |-> SelectSeq(all, LAMBDA h :
                      h.text # "" /\ Len(h.text) >= 3 /\ h.level # None)]

\* the if/elif chain of extract_headings_from_text
text_level_pp(line) ==
    IF re_match(PatAllCaps, line) /\ 4 <= Len(line) /\ Len(line) <= 100 THEN "H1"
    ELSE IF re_match(PatNum1, line) THEN "H1"
    ELSE IF re_match(PatNum2, line) THEN "H2"
    ELSE IF re_match(PatNum3, line) THEN "H3"
    ELSE None

extract_headings_from_text_pp(text, page_num) ==
    LET ls == Lines(text)
        all == [i \in 1..Len(ls) |-> Heading(text_level_pp(ls[i]), ls[i], page_num)]
    IN  SelectSeq(all, LAMBDA h : h.text # "" /\ Len(h.text) >= 3 /\ h.level # None)

\* the title scan of extract_with_pypdf2
scan_title_pp(text) ==
    LET ls == Lines(text)
        ok == {i \in 1..Len(ls) : ls[i] # "" /\ Len(ls[i]) > 3 /\ ~isdigit(ls[i])}
    IN  IF ok = {} THEN "" ELSE ls[Min(ok)]

(***************************************************************************)
(* extractor/views.py                                                      *)
(***************************************************************************)

\* the title loop of extract_title_from_page: the first stripped line that
\* is non-empty and longer than 3
title_of_text_vw(text) ==
    LET ls == Lines(text)
        ok == {i \in 1..Len(ls) : ls[i] # "" /\ Len(ls[i]) > 3}
    IN  IF ok = {} THEN "" ELSE ls[Min(ok)]

\* no try/except: a raising extract_text() propagates
extract_title_from_page_vw(page) ==
    LET text == page.extract_text[1]
    IN  IF text.raised THEN Raised
        ELSE IF text.value = "" THEN Ok("")
        ELSE Ok(title_of_text_vw(text.value))

heading_keywords ==
    {"chapter", "section", "introduction", "conclusion", "overview", "summary"}

\* the size rule filled in: with more than two sizes on the page, a line
\* that matched no rule is H3
detect_heading_level_by_size(line, chars, sorted_sizes) ==
    IF re_match(PatNum1Bare, line) THEN "H1"
    ELSE IF re_match(PatNum2Bare, line) THEN "H2"
    ELSE IF re_match(PatNum3Bare, line) THEN "H3"
    ELSE IF isupper(line) /\ Len(line) > 3 THEN "H1"
    ELSE IF istitle(line) /\ 10 <= Len(line) /\ Len(line) <= 100 THEN "H2"
    ELSE IF \E keyword \in heading_keywords : contains(lower(line), keyword) THEN "H2"
    ELSE IF Len(sorted_sizes) > 2 THEN "H3"
    ELSE None

detect_heading_level_vw(line, chars, sorted_sizes) ==
    IF re_match(PatNum1Bare, line) THEN "H1"
    ELSE IF re_match(PatNum2Bare, line) THEN "H2"
    ELSE IF re_match(PatNum3Bare, line) THEN "H3"
    ELSE IF isupper(line) /\ Len(line) > 3 THEN "H1"
    ELSE IF istitle(line) /\ 10 <= Len(line) /\ Len(line) <= 100 THEN "H2"
    ELSE IF \E keyword \in heading_keywords : contains(lower(line), keyword) THEN "H2"
    ELSE IF Len(sorted_sizes) > 2 THEN None
    ELSE None

\* the if/elif chain of extract_headings_fallback
fallback_level_vw(line) ==
    IF re_match(PatAllCaps, line) /\ Len(line) > 3 THEN "H1"
    ELSE IF re_match(PatNum1, line) THEN "H1"
    ELSE IF re_match(PatNum2, line) THEN "H2"
    ELSE IF re_match(PatNum3, line) THEN "H3"
    ELSE None

\* no try/except: a raising extract_text() propagates
extract_headings_fallback_vw(page, page_num) ==
    LET text == page.extract_text[1]
    IN  IF text.raised THEN Raised
        ELSE IF text.value = "" THEN Ok(<<>>)
        ELSE LET ls == Lines(text.value)
                 all == [i \in 1..Len(ls) |->
                            Heading(fallback_level_vw(ls[i]), ls[i], page_num)]
             IN  Ok(SelectSeq(all, LAMBDA h : h.text # "" /\ h.level # None))

extract_headings_from_page_vw(page, page_num) ==
    LET text == page.extract_text[1]
        fb == extract_headings_fallback_vw(AfterCall(page), page_num)
        reduced == IF fb.raised THEN Raised
                   ELSE [raised |-> FALSE, used |-> "reduced", value |-> fb.value]
    IN  IF text.raised THEN reduced
        ELSE IF text.value = "" THEN [raised |-> FALSE, used |-> "primary", value |-> <<>>]
        ELSE IF page.chars.raised THEN reduced
        ELSE LET sorted_sizes == sorted_sizes_of(page.chars.value)
                 ls == Lines(text.value)
                 all == [i \in 1..Len(ls) |->
                            Heading(detect_heading_level_vw(ls[i], page.chars.value,
                                                            sorted_sizes),
                                    ls[i], page_num)]
             IN  [raised |-> FALSE, used |-> "primary",
                  value |-> SelectSeq(all, LAMBDA h : h.text # "" /\ h.level # None)]

\* the if/elif chain of extract_headings_from_text
text_level_vw(line) ==
    IF re_match(PatAllCaps, line) /\ Len(line) > 3 THEN "H1"
    ELSE IF re_match(PatNum1, line) THEN "H1"
    ELSE IF re_match(PatNum2, line) THEN "H2"
    ELSE IF re_match(PatNum3, line) THEN "H3"
    ELSE None

extract_headings_from_text_vw(text, page_num) ==
    LET ls == Lines(text)
        all == [i \in 1..Len(ls) |-> Heading(text_level_vw(ls[i]), ls[i], page_num)]
    IN  SelectSeq(all, LAMBDA h : h.text # "" /\ h.level # None)

\* the title scan of extract_with_pypdf2
scan_title_vw(text) ==
    LET ls == Lines(text)
        ok == {i \in 1..Len(ls) : ls[i] # "" /\ Len(ls[i]) > 3}
    IN  IF ok = {} THEN "" ELSE ls[Min(ok)]

(***************************************************************************)
(* extract_with_pypdf2: the steps inside its try block, and its handler.   *)
(***************************************************************************)

\* the first page's scanned line preferred to the metadata's title
plain_title_scan_first(metadata, pages) ==
    IF metadata.raised THEN Raised
    ELSE LET first_page_text == IF pages = <<>> THEN Ok("") ELSE pages[1].extract_text[1]
             scanned == IF first_page_text.raised \/ first_page_text.value = "" THEN ""
                        ELSE scan_title_pp(first_page_text.value)
         IN  IF scanned # "" THEN Ok(scanned)
             ELSE IF "/Title" \in DOMAIN metadata.value THEN Ok(metadata.value["/Title"])
             ELSE Ok("")

\* the title from the metadata or from a scan of the first page
plain_title_pp(metadata, pages) ==
    IF metadata.raised THEN Raised
    ELSE IF "/Title" \in DOMAIN metadata.value THEN Ok(metadata.value["/Title"])
    ELSE IF pages = <<>> THEN Ok("")
    ELSE LET first_page_text == pages[1].extract_text[1]
         IN  IF first_page_text.raised THEN Raised
             ELSE IF first_page_text.value = "" THEN Ok("")
             ELSE Ok(scan_title_pp(first_page_text.value))

plain_title_vw(metadata, pages) ==
    IF metadata.raised THEN Raised
    ELSE IF "/Title" \in DOMAIN metadata.value THEN Ok(metadata.value["/Title"])
    ELSE IF pages = <<>> THEN Ok("")
    ELSE LET first_page_text == pages[1].extract_text[1]
         IN  IF first_page_text.raised THEN Raised
             ELSE IF first_page_text.value = "" THEN Ok("")
             ELSE Ok(scan_title_vw(first_page_text.value))

\* one iteration of the page loop of extract_with_pypdf2
plain_page_pp(page, page_num) ==
    LET text == page.extract_text[1]
    IN  IF text.raised THEN Raised
        ELSE IF text.value = "" THEN Ok(<<>>)
        ELSE Ok(extract_headings_from_text_pp(text.value, page_num))

plain_page_vw(page, page_num) ==
    LET text == page.extract_text[1]
    IN  IF text.raised THEN Raised
        ELSE IF text.value = "" THEN Ok(<<>>)
        ELSE Ok(extract_headings_from_text_vw(text.value, page_num))

Returned(doc) == [kind |-> "return", value |-> doc]
Propagated == [kind |-> "raise"]
Running == [kind |-> "none"]

\* a handler that lets the exception go on to the caller
pypdf2_except_reraise == Propagated

\* except Exception: return {"title": "Error extracting title", "outline": []}
pypdf2_except_pp ==
    Returned([title |-> "Error extracting title", outline |-> <<>>])

pypdf2_except_vw ==
    Returned([title |-> "Error extracting title", outline |-> <<>>])

\* outline = {"title": "", "outline": []}
new_outline == [title |-> "", outline |-> <<>>]

\* the dict extract_with_pypdf2 starts from: its own, whatever
\* extract_pdf_outline had collected before it gave up
pypdf2_keep_outline(collected) == collected

pypdf2_new_outline(collected) == new_outline

\* headings put in front of the ones collected so far
extend_in_front(doc, headings) == [doc EXCEPT !.outline = headings \o @]

\* outline["outline"].extend(headings)
extend(doc, headings) == [doc EXCEPT !.outline = @ \o headings]

\* enumerate(pages, 1)
first_page_num == 1

(***************************************************************************)
(* The documents extraction is run on.                                     *)
(***************************************************************************)
Glyph(sz) == [size |-> sz]
Unsized == [fontname |-> "Helvetica"]

PageCatalog ==
    { [text  |-> "2024\n  Project Overview \n1. Introduction\n1.1 Background",
       chars |-> <<Glyph(18), Glyph(12), Unsized, Glyph(12), Glyph(10)>>],
      [text  |-> "RESULTS\n1.1.1 Related Work\nHi\nsee the summary",
       chars |-> <<Glyph(10)>>],
      [text  |-> "", chars |-> <<>>] }

NoMetadata == [k \in {} |-> ""]
Titled(t) == [k \in {"/Title"} |-> t]
MetadataCatalog == {NoMetadata, Titled("Report X"), Titled("")}

Sites == {"process_pdfs", "views"}

SeqsUpTo(S, n) == UNION {[1..k -> S] : k \in 0..n}

\* the page objects a backend may hand out for a page: each call on it
\* answers or raises
RichPages(content) ==
    { [extract_text |-> <<t1, t2>>, chars |-> c] :
        t1 \in {Ok(content.text), Raised}, t2 \in {Ok(content.text), Raised},
        c \in {Ok(content.chars), Raised} }

PlainPages(content) ==
    { [extract_text |-> <<t>>] : t \in {Ok(content.text), Raised} }

(***************************************************************************)
(* extract_pdf_outline as a state machine.                                 *)
(*   site      the module whose extract_pdf_outline runs                   *)
(*   pdf       the document: page contents and metadata                    *)
(*   pc        the position in the code                                    *)
(*   page_num  the page loop's counter                                     *)
(*   outline   the local dict being filled                                 *)
(*   result    what the call returned or raised                            *)
(*   log       history: one event per backend step taken                   *)
(***************************************************************************)
VARIABLES site, pdf, pc, page_num, outline, result, log,
          line, levels, text, titles,
          page_chars, found,
          options, output_dir, todo, deleted_count, stdout, at_start, previous, phase

pipeline == <<site, pdf, pc, page_num, outline, result, log>>
sizing == <<page_chars, found>>
cleanup == <<options, output_dir, todo, deleted_count, stdout, at_start, previous, phase>>
scratch == <<line, levels, text, titles, sizing, cleanup>>

vars == <<pipeline, scratch>>

Event(backend, step, n, failed, propagated, used, before) ==
    [backend |-> backend, step |-> step, page |-> n, failed |-> failed,
     propagated |-> propagated, used |-> used, before |-> before]

Unclassified == [classified |-> FALSE]
Undetected == [detected |-> FALSE]
Unextracted == [extracted |-> FALSE]
NoRun == [ran |-> FALSE]

NoSizing == page_chars = <<>> /\ found = Unextracted

NoCleanup ==
    /\ options = [days |-> 0, dry_run |-> FALSE]
    /\ output_dir = [exists |-> FALSE, files |-> <<>>]
    /\ todo = {}
    /\ deleted_count = 0
    /\ stdout = <<>>
    /\ at_start = <<>>
    /\ previous = NoRun
    /\ phase = "idle"

Init ==
    /\ site \in Sites
    /\ pdf \in [pages : SeqsUpTo(PageCatalog, MaxPages), metadata : MetadataCatalog]
    /\ pc = "rich_open"
    /\ page_num = first_page_num
    /\ outline = new_outline
    /\ result = Running
    /\ log = <<>>
    /\ line = "" /\ levels = Unclassified /\ text = "" /\ titles = Undetected
    /\ NoSizing /\ NoCleanup

\* with pdfplumber.open(pdf_path) as pdf: outline = {...}
RichOpen ==
    /\ pc = "rich_open"
    /\ \E opened \in BOOLEAN :
          /\ pc' = IF opened THEN "rich_title" ELSE "plain_open"
          /\ log' = Append(log, Event("rich", "open", 0, ~opened, ~opened, "none", <<>>))
    /\ outline' = new_outline
    /\ UNCHANGED <<site, pdf, page_num, result, scratch>>

\* if pdf.pages: outline["title"] = extract_title_from_page(pdf.pages[0])
RichTitle ==
    /\ pc = "rich_title"
    /\ IF pdf.pages = <<>>
         THEN /\ pc' = "rich_pages"
              /\ UNCHANGED <<outline, log>>
         ELSE \E first_page \in RichPages(pdf.pages[1]) :
                LET title == IF site = "process_pdfs"
                                THEN Ok(extract_title_from_page_pp(first_page))
                                ELSE extract_title_from_page_vw(first_page)
                IN  /\ pc' = IF title.raised THEN "plain_open" ELSE "rich_pages"
                    /\ outline' = IF title.raised THEN outline
                                  ELSE [outline EXCEPT !.title = title.value]
                    /\ log' = Append(log, Event("rich", "title", 1,
                                  first_page.extract_text[1].raised, title.raised,
                                  "none", outline.outline))
    /\ page_num' = first_page_num
    /\ UNCHANGED <<site, pdf, result, scratch>>

\* one iteration of: for page_num, page in enumerate(pdf.pages, 1)
RichPage ==
    /\ pc = "rich_pages"
    /\ page_num - first_page_num < Len(pdf.pages)
    /\ \E page \in RichPages(pdf.pages[page_num - first_page_num + 1]) :
          LET headings == IF site = "process_pdfs"
                             THEN extract_headings_from_page_pp(page, page_num)
                             ELSE extract_headings_from_page_vw(page, page_num)
          IN  IF headings.raised
                THEN /\ pc' = "plain_open"
                     /\ log' = Append(log, Event("rich", "page", page_num, TRUE, TRUE,
                                   "none", outline.outline))
                     /\ UNCHANGED <<outline, page_num>>
                ELSE /\ outline' = extend(outline, headings.value)
                     /\ page_num' = page_num + 1
                     /\ log' = Append(log, Event("rich", "page", page_num,
                                   headings.used = "reduced", FALSE, headings.used,
                                   outline.outline))
                     /\ pc' = pc
    /\ UNCHANGED <<site, pdf, result, scratch>>

\* return outline
RichReturn ==
    /\ pc = "rich_pages"
    /\ page_num - first_page_num >= Len(pdf.pages)
    /\ result' = Returned(outline)
    /\ pc' = "done"
    /\ UNCHANGED <<site, pdf, page_num, outline, log, scratch>>

pypdf2_except == IF site = "process_pdfs" THEN pypdf2_except_pp ELSE pypdf2_except_vw

\* with open(pdf_path, 'rb') as file: pdf_reader = PdfReader(file); outline = {...}
PlainOpen ==
    /\ pc = "plain_open"
    /\ \E opened \in BOOLEAN :
          /\ log' = Append(log, Event("plain", "open", 0, ~opened, ~opened, "none",
                                      outline.outline))
          /\ IF opened
               THEN /\ pc' = "plain_title"
                    /\ outline' = pypdf2_new_outline(outline)
                    /\ UNCHANGED result
               ELSE /\ pc' = "done"
                    /\ result' = pypdf2_except
                    /\ UNCHANGED outline
    /\ UNCHANGED <<site, pdf, page_num, scratch>>

\* the title from pdf_reader.metadata or from pdf_reader.pages[0]
PlainTitle ==
    /\ pc = "plain_title"
    /\ \E metadata \in {Ok(pdf.metadata), Raised},
          pages \in (IF pdf.pages = <<>> THEN {<<>>}
                     ELSE {<<p>> : p \in PlainPages(pdf.pages[1])}) :
          LET title == IF site = "process_pdfs"
                          THEN plain_title_pp(metadata, pages)
                          ELSE plain_title_vw(metadata, pages)
          IN  /\ log' = Append(log, Event("plain", "title", 1, title.raised,
                                          title.raised, "none", outline.outline))
              /\ IF title.raised
                   THEN /\ pc' = "done"
                        /\ result' = pypdf2_except
                        /\ UNCHANGED outline
                   ELSE /\ pc' = "plain_pages"
                        /\ outline' = [outline EXCEPT !.title = title.value]
                        /\ UNCHANGED result
    /\ page_num' = first_page_num
    /\ UNCHANGED <<site, pdf, scratch>>

\* one iteration of: for page_num, page in enumerate(pdf_reader.pages, 1)
PlainPage ==
    /\ pc = "plain_pages"
    /\ page_num - first_page_num < Len(pdf.pages)
    /\ \E page \in PlainPages(pdf.pages[page_num - first_page_num + 1]) :
          LET headings == IF site = "process_pdfs"
                             THEN plain_page_pp(page, page_num)
                             ELSE plain_page_vw(page, page_num)
          IN  /\ log' = Append(log, Event("plain", "page", page_num, headings.raised,
                                          headings.raised, "reduced", outline.outline))
              /\ IF headings.raised
                   THEN /\ pc' = "done"
                        /\ result' = pypdf2_except
                        /\ UNCHANGED <<outline, page_num>>
                   ELSE /\ outline' = extend(outline, headings.value)
                        /\ page_num' = page_num + 1
                        /\ pc' = pc
                        /\ UNCHANGED result
    /\ UNCHANGED <<site, pdf, scratch>>

\* return outline
PlainReturn ==
    /\ pc = "plain_pages"
    /\ page_num - first_page_num >= Len(pdf.pages)
    /\ result' = Returned(outline)
    /\ pc' = "done"
    /\ UNCHANGED <<site, pdf, page_num, outline, log, scratch>>

Next ==
    \/ RichOpen \/ RichTitle \/ RichPage \/ RichReturn
    \/ PlainOpen \/ PlainTitle \/ PlainPage \/ PlainReturn

Spec == Init /\ [][Next]_vars

\* the call runs in one thread with no wait in it: a statement that can run
\* does run
SpecFair == Spec /\ WF_vars(Next)

(***************************************************************************)
(* The classifiers on one line: a line is typed character by character     *)
(* (or taken from the examples) and then put, as a page's only line,       *)
(* through each function that classifies lines.                            *)
(***************************************************************************)
LineAlphabet == {"1", ".", " ", "A", "a"}

ExampleLines ==
    {"1. Introduction", "1.1 Background", "1.1.1 Related Work", "INTRODUCTION",
     "Conclusion And Future Work", "Experimental Results", "Hi",
     "12.3.45  Zeta", "see section 2 for the summary", "Chapter 3", "IV. Results",
     "B. Scope", "Summary", "Project Overview"}

Idle ==
    /\ site = "process_pdfs"
    /\ pdf = [pages |-> <<>>, metadata |-> NoMetadata]
    /\ pc = "idle"
    /\ page_num = first_page_num
    /\ outline = new_outline
    /\ result = Running
    /\ log = <<>>

InitLine ==
    /\ Idle
    /\ line \in {""} \cup ExampleLines
    /\ levels = Unclassified
    /\ text = "" /\ titles = Undetected
    /\ NoSizing /\ NoCleanup

TypeLine ==
    /\ ~levels.classified
    /\ Len(line) < MaxLineLen
    /\ \E c \in LineAlphabet : line' = line \o c
    /\ UNCHANGED <<pipeline, levels, text, titles, sizing, cleanup>>

\* the level of the only heading of a list of at most one heading
LevelOf(headings) == IF headings = <<>> THEN None ELSE headings[1].level

Classify ==
    /\ ~levels.classified
    /\ LET rich == [extract_text |-> <<Ok(line), Ok(line)>>, chars |-> Ok(<<>>)]
           glyphless == [extract_text |-> <<Ok(line), Ok(line)>>, chars |-> Raised]
       IN  levels' =
             [classified  |-> TRUE,
              detect_pp   |-> LevelOf(extract_headings_from_page_pp(rich, 1).value),
              fallback_pp |-> LevelOf(extract_headings_from_page_pp(glyphless, 1).value),
              text_pp     |-> LevelOf(extract_headings_from_text_pp(line, 1)),
              detect_vw   |-> LevelOf(extract_headings_from_page_vw(rich, 1).value),
              fallback_vw |-> LevelOf(extract_headings_from_page_vw(glyphless, 1).value),
              text_vw     |-> LevelOf(extract_headings_from_text_vw(line, 1))]
    /\ UNCHANGED <<pipeline, line, text, titles, sizing, cleanup>>

NextLine == TypeLine \/ Classify

SpecLine == InitLine /\ [][NextLine]_vars

(***************************************************************************)
(* Title detection on one text: a first page's text is typed character by  *)
(* character (or taken from the examples) and then put through each        *)
(* function that finds a title in a page.                                  *)
(***************************************************************************)
TextAlphabet == {"7", "a", " ", "\n"}

ExampleTexts ==
    {"2024\nAnnual Report\nJune", "  12  \n\n   Project Overview  \n1. Introduction",
     "abc\n4567\n 89012 "}

InitText ==
    /\ Idle
    /\ text \in {""} \cup ExampleTexts
    /\ titles = Undetected
    /\ line = "" /\ levels = Unclassified
    /\ NoSizing /\ NoCleanup

TypeText ==
    /\ ~titles.detected
    /\ Len(text) < MaxTextLen
    /\ \E c \in TextAlphabet : text' = text \o c
    /\ UNCHANGED <<pipeline, line, levels, titles, sizing, cleanup>>

DetectTitle ==
    /\ ~titles.detected
    /\ LET rich == [extract_text |-> <<Ok(text), Ok(text)>>, chars |-> Ok(<<>>)]
           plain == [extract_text |-> <<Ok(text)>>]
       IN  titles' =
             [detected |-> TRUE,
              rich_pp  |-> extract_title_from_page_pp(rich),
              scan_pp  |-> plain_title_pp(Ok(NoMetadata), <<plain>>).value,
              rich_vw  |-> extract_title_from_page_vw(rich).value,
              scan_vw  |-> plain_title_vw(Ok(NoMetadata), <<plain>>).value]
    /\ UNCHANGED <<pipeline, line, levels, text, sizing, cleanup>>

NextText == TypeText \/ DetectTitle

SpecText == InitText /\ [][NextText]_vars

(***************************************************************************)
(* The font-size histogram: a page's text is fixed, its glyph records are  *)
(* added one by one, and the page is then put through                      *)
(* extract_headings_from_page of each module, next to a page of the same   *)
(* text that has no glyph records.                                         *)
(***************************************************************************)
GlyphAlphabet == {Glyph(10), Glyph(12), Glyph(18), Unsized}

SizedTexts ==
    {c.text : c \in PageCatalog} \cup
    {"Conclusion And Future Work\nExperimental Results\nsee section 2\nHi"}

InitGlyph ==
    /\ Idle
    /\ text \in SizedTexts
    /\ page_chars = <<>>
    /\ found = Unextracted
    /\ line = "" /\ levels = Unclassified /\ titles = Undetected
    /\ NoCleanup

AddGlyph ==
    /\ ~found.extracted
    /\ Len(page_chars) < MaxGlyphs
    /\ \E g \in GlyphAlphabet : page_chars' = Append(page_chars, g)
    /\ UNCHANGED <<pipeline, line, levels, text, titles, found, cleanup>>

ExtractHeadings ==
    /\ ~found.extracted
    /\ LET sized == [extract_text |-> <<Ok(text), Ok(text)>>, chars |-> Ok(page_chars)]
           bare == [extract_text |-> <<Ok(text), Ok(text)>>, chars |-> Ok(<<>>)]
       IN  found' =
             [extracted |-> TRUE,
              sized_pp  |-> extract_headings_from_page_pp(sized, first_page_num),
              bare_pp   |-> extract_headings_from_page_pp(bare, first_page_num),
              sized_vw  |-> extract_headings_from_page_vw(sized, first_page_num),
              bare_vw   |-> extract_headings_from_page_vw(bare, first_page_num)]
    /\ UNCHANGED <<pipeline, line, levels, text, titles, page_chars, cleanup>>

NextGlyph == AddGlyph \/ ExtractHeadings

SpecGlyph == InitGlyph /\ [][NextGlyph]_vars

(***************************************************************************)
(* The cleanup command (management/commands/cleanup_results.py).           *)
(*   options        the parsed --days and --dry-run                        *)
(*   output_dir     the directory: whether it exists, and its entries, a   *)
(*                  function from file names to what os.path.getmtime      *)
(*                  gives for the file and whether os.remove can remove it *)
(*   todo           the names of os.listdir not yet iterated over          *)
(*   deleted_count  the local counter                                      *)
(*   stdout         the lines written by the run                           *)
(*   at_start       history: the entries when the run started              *)
(*   previous       history: the run before this one                       *)
(*   phase          the position in handle                                 *)
(* Times are whole days; the command may be run again and again.           *)
(***************************************************************************)
\* a name that has the suffix somewhere, at its end or not
endswith_or_contains(s, suffix) == contains(s, suffix)

\* str.endswith
endswith(s, suffix) ==
    Len(s) >= Len(suffix) /\ SubSeq(s, Len(s) - Len(suffix) + 1, Len(s)) = suffix

\* --days, default=30
default_days == 30

\* datetime.now()
now == MaxTime

\* cutoff_date = datetime.now() - timedelta(days=options['days'])
cutoff_date(days) == now - days

FileNames == {"a.json", "b.json", "a.json.bak"}

DaysOptions == {1, default_days}

\* what a directory can hold under a name: a result file, a file whose
\* getmtime raises, or a file or directory that os.remove cannot remove
Entries ==
    {[mtime |-> Ok(t), removable |-> r] : t \in 0..MaxTime, r \in BOOLEAN}
        \cup {[mtime |-> Raised, removable |-> TRUE]}

Directories ==
    UNION {[names -> Entries] : names \in SUBSET FileNames}

Run(opts, at, files, out, ph) ==
    [ran |-> TRUE, options |-> opts, at_start |-> at, at_end |-> files,
     stdout |-> out, phase |-> ph]

InitCleanup ==
    /\ Idle
    /\ line = "" /\ levels = Unclassified /\ text = "" /\ titles = Undetected
    /\ NoSizing
    /\ options = [days |-> default_days, dry_run |-> FALSE]
    /\ \/ output_dir = [exists |-> FALSE, files |-> <<>>]
       \/ \E d \in Directories : output_dir = [exists |-> TRUE, files |-> d]
    /\ todo = {}
    /\ deleted_count = 0
    /\ stdout = <<>>
    /\ at_start = <<>>
    /\ previous = NoRun
    /\ phase = "ready"

\* handle, from its start to the first iteration of the loop
Handle ==
    /\ phase \in {"ready", "done", "raised"}
    /\ previous' = IF phase = "ready" THEN NoRun
                   ELSE Run(options, at_start, output_dir.files, stdout, phase)
    /\ \E days \in DaysOptions, dry_run \in BOOLEAN :
          options' = [days |-> days, dry_run |-> dry_run]
    /\ at_start' = output_dir.files
    /\ IF ~output_dir.exists
         THEN /\ stdout' = <<"Output directory does not exist">>
              /\ phase' = "done"
              /\ UNCHANGED <<todo, deleted_count>>
         ELSE \E listed \in BOOLEAN :
                IF listed
                  THEN /\ todo' = DOMAIN output_dir.files
                       /\ deleted_count' = 0
                       /\ stdout' = <<>>
                       /\ phase' = "loop"
                  ELSE /\ phase' = "raised"
                       /\ stdout' = <<>>
                       /\ UNCHANGED <<todo, deleted_count>>
    /\ UNCHANGED <<pipeline, line, levels, text, titles, sizing, output_dir>>

\* one iteration of: for filename in os.listdir(output_dir)
CleanupFile ==
    /\ phase = "loop"
    /\ \E filename \in todo :
          LET entry == output_dir.files[filename]
              file_mtime == entry.mtime
          IN  /\ todo' = todo \ {filename}
              /\ IF ~endswith(filename, ".json")
                   THEN UNCHANGED <<output_dir, stdout, deleted_count>>
                   ELSE IF file_mtime.raised
                   THEN /\ stdout' = Append(stdout, "Error processing " \o filename)
                        /\ UNCHANGED <<output_dir, deleted_count>>
                   ELSE IF ~(file_mtime.value < cutoff_date(options.days))
                   THEN UNCHANGED <<output_dir, stdout, deleted_count>>
                   ELSE IF options.dry_run
                   THEN /\ stdout' = Append(stdout, "Would delete: " \o filename)
                        /\ deleted_count' = deleted_count + 1
                        /\ UNCHANGED output_dir
                   ELSE IF ~entry.removable
                   THEN /\ stdout' = Append(stdout, "Error processing " \o filename)
                        /\ UNCHANGED <<output_dir, deleted_count>>
                   ELSE /\ output_dir' =
                             [output_dir EXCEPT !.files =
                                 [n \in DOMAIN @ \ {filename} |-> @[n]]]
                        /\ stdout' = Append(stdout, "Deleted: " \o filename)
                        /\ deleted_count' = deleted_count + 1
    /\ UNCHANGED <<pipeline, line, levels, text, titles, sizing,
                   options, at_start, previous, phase>>

would_delete_files(count) == "Would delete " \o ToString(count) \o " files"

deleted_files(count, days) ==
    "Deleted " \o ToString(count) \o " files older than " \o ToString(days) \o " days"

\* the line written after the loop
Summary ==
    /\ phase = "loop"
    /\ todo = {}
    /\ stdout' = Append(stdout,
                    IF options.dry_run THEN would_delete_files(deleted_count)
                    ELSE deleted_files(deleted_count, options.days))
    /\ phase' = "done"
    /\ UNCHANGED <<pipeline, line, levels, text, titles, sizing,
                   options, output_dir, todo, deleted_count, at_start, previous>>

NextCleanup == Handle \/ CleanupFile \/ Summary

SpecCleanup == InitCleanup /\ [][NextCleanup]_vars

(***************************************************************************)
(* Vocabulary of the properties.                                           *)
(***************************************************************************)
Range(f) == {f[i] : i \in DOMAIN f}

Events(backend, step) == {i \in DOMAIN log : log[i].backend = backend /\ log[i].step = step}

Done == pc = "done"

\* the rich backend failed for the document: an exception left its try block
RichFailed == \E i \in DOMAIN log : log[i].backend = "rich" /\ log[i].propagated

\* the plain backend failed: extract_with_pypdf2's handler ran
PlainFailed == \E i \in DOMAIN log : log[i].backend = "plain" /\ log[i].propagated

\* the call returned the outline built under the plain backend
ViaPlain == Done /\ RichFailed /\ ~PlainFailed

\* the call returned the outline built under the rich backend
ViaRich == Done /\ ~RichFailed

(***************************************************************************)
(* C1: extract_pdf_outline never raises to its caller: whatever backend    *)
(* calls fail, it runs to its end and returns a Document that has a title  *)
(* and an outline.                                                         *)
(***************************************************************************)
C1_NeverRaises ==
    /\ result.kind # "raise"
    /\ Done <=> result.kind = "return"
    /\ ~Done => ENABLED Next
    /\ result.kind = "return" => {"title", "outline"} \subseteq DOMAIN result.value

\* a call that returned although a page failed under the rich backend and
\* a page failed under the plain backend
C1_Witness ==
    /\ result.kind = "return"
    /\ \E i \in Events("rich", "page") : log[i].failed
    /\ \E i \in Events("plain", "page") : log[i].failed

(***************************************************************************)
(* C2: when both backends fail, the Document returned has the title        *)
(* "Error extracting title", an empty outline and an error field holding   *)
(* a non-empty string.                                                     *)
(***************************************************************************)
C2_TotalFailureDocument ==
    (Done /\ RichFailed /\ PlainFailed) =>
        /\ result.value.title = "Error extracting title"
        /\ result.value.outline = <<>>
        /\ "error" \in DOMAIN result.value
        /\ result.value.error # ""

(***************************************************************************)
(* C3: partial success is preserved: when the extraction of a page failed  *)
(* after headings had been collected from the pages before it, every one   *)
(* of those headings is in the outline returned.                           *)
(***************************************************************************)
C3_PartialSuccessPreserved ==
    result.kind = "return" =>
        \A i \in DOMAIN log :
            (log[i].step = "page" /\ log[i].failed) =>
                Range(log[i].before) \subseteq Range(result.value.outline)

(***************************************************************************)
(* C4: on the rich path a page whose extraction throws is handled by the   *)
(* reduced cascade, alone: the document is not switched to the plain       *)
(* backend and every later page is processed by the rich path, with the    *)
(* primary cascade unless its own extraction throws.                       *)
(***************************************************************************)
C4_PageFailureIsLocal ==
    Done =>
        \A i \in Events("rich", "page") :
            log[i].failed =>
                /\ log[i].used = "reduced"
                /\ \A j \in DOMAIN log : log[j].backend # "plain"
                /\ \A n \in (log[i].page + 1)..Len(pdf.pages) :
                      \E j \in Events("rich", "page") :
                          /\ j > i
                          /\ log[j].page = n
                          /\ ~log[j].failed => log[j].used = "primary"

(***************************************************************************)
(* C5: when the rich backend fails for the document and the plain backend  *)
(* succeeds, the document is processed once under the plain backend: the   *)
(* outline returned is the concatenation, in page order, of the reduced    *)
(* cascade's headings of each page's text, nothing collected under the     *)
(* rich backend is in it, and the rich backend is not tried again.         *)
(***************************************************************************)
RECURSIVE ReducedFrom(_)
ReducedFrom(n) ==
    IF n > Len(pdf.pages) THEN <<>>
    ELSE (IF site = "process_pdfs"
             THEN extract_headings_from_text_pp(pdf.pages[n].text, n)
             ELSE extract_headings_from_text_vw(pdf.pages[n].text, n))
         \o ReducedFrom(n + 1)

C5_PlainReprocessesOnce ==
    /\ \A i, j \in DOMAIN log :
          (i < j /\ log[i].backend = "plain") => log[j].backend = "plain"
    /\ ViaPlain =>
          LET f == Min({i \in DOMAIN log : log[i].backend = "plain"})
          IN  /\ Len(log) = f + 1 + Len(pdf.pages)
              /\ log[f].step = "open"
              /\ log[f + 1].step = "title"
              /\ \A n \in 1..Len(pdf.pages) :
                    log[f + 1 + n].step = "page" /\ log[f + 1 + n].page = n
              /\ result.value.outline = ReducedFrom(1)

\* the rich backend gave up on a later page, headings already collected, and
\* the plain backend returned headings of two pages
C5_Witness ==
    /\ ViaPlain
    /\ \E i \in Events("rich", "page") : log[i].propagated /\ log[i].before # <<>>
    /\ \E h, g \in Range(result.value.outline) : h.page # g.page

(***************************************************************************)
(* C6: on the plain path a non-empty Title of the metadata is the          *)
(* Document's title, not a line of page 1; a scanned line is the title     *)
(* only when the metadata has no Title.                                    *)
(***************************************************************************)
C6_MetadataTitlePreferred ==
    ViaPlain =>
        LET title == result.value.title
            scanned == IF pdf.pages = <<>> THEN {}
                       ELSE {l \in Range(Lines(pdf.pages[1].text)) : Len(l) > 3}
        IN  /\ ("/Title" \in DOMAIN pdf.metadata /\ pdf.metadata["/Title"] # "")
                  => title = pdf.metadata["/Title"] /\ title \notin scanned
            /\ title \in scanned => "/Title" \notin DOMAIN pdf.metadata
            /\ "/Title" \notin DOMAIN pdf.metadata => title \in scanned \cup {""}

\* the plain path returned for a document with a metadata Title whose first
\* page has lines that a scan would take
C6_Witness ==
    /\ ViaPlain
    /\ "/Title" \in DOMAIN pdf.metadata /\ pdf.metadata["/Title"] = "Report X"
    /\ pdf.pages # <<>> /\ scan_title_vw(pdf.pages[1].text) # ""
    /\ result.value.title = "Report X"

(***************************************************************************)
(* C8: every Document returned passes validate_json_format: a string       *)
(* title, a list outline, every entry with a level among H1, H2, H3, a     *)
(* string text and an integer page >= 1.                                   *)
(***************************************************************************)
validate_json_format(json_data) ==
    /\ \A key \in {"title", "outline"} : key \in DOMAIN json_data
    /\ json_data.title \in STRING
    /\ DOMAIN json_data.outline = 1..Len(json_data.outline)
    /\ \A i \in DOMAIN json_data.outline :
          LET item == json_data.outline[i]
          IN  /\ \A key \in {"level", "text", "page"} : key \in DOMAIN item
              /\ item.level \in {"H1", "H2", "H3"}
              /\ item.text \in STRING
              /\ item.page \in Int /\ item.page >= 1

C8_ValidFormat == result.kind = "return" => validate_json_format(result.value)

\* a Document returned with entries of all three levels
C8_Witness ==
    /\ result.kind = "return"
    /\ {h.level : h \in Range(result.value.outline)} = {"H1", "H2", "H3"}

(***************************************************************************)
(* C9: in the outline returned the page numbers never decrease, each is    *)
(* the 1-based index of the page its line was scanned from, and the        *)
(* entries of a page are in the order of the lines of its text: nothing is *)
(* sorted by level or text.                                                *)
(***************************************************************************)
RECURSIVE IsSubsequence(_, _)
IsSubsequence(a, b) ==
    IF a = <<>> THEN TRUE
    ELSE IF b = <<>> THEN FALSE
    ELSE IF Head(a) = Head(b) THEN IsSubsequence(Tail(a), Tail(b))
    ELSE IsSubsequence(a, Tail(b))

TextsOfPage(o, n) ==
    LET on == SelectSeq(o, LAMBDA h : h.page = n) IN [i \in 1..Len(on) |-> on[i].text]

C9_ScanOrder ==
    result.kind = "return" =>
        LET o == result.value.outline
        IN  /\ \A i \in 1..(Len(o) - 1) : o[i].page <= o[i + 1].page
            /\ \A i \in 1..Len(o) : o[i].page \in 1..Len(pdf.pages)
            /\ \A n \in 1..Len(pdf.pages) :
                  IsSubsequence(TextsOfPage(o, n), Lines(pdf.pages[n].text))

\* an outline of several pages, two entries on one page, and a deeper level
\* before a shallower one
C9_Witness ==
    /\ result.kind = "return"
    /\ LET o == result.value.outline
       IN  /\ \E i, j \in 1..Len(o) : i < j /\ o[i].page = o[j].page /\ o[i].text # o[j].text
           /\ \E i, j \in 1..Len(o) :
                 i < j /\ o[i].page < o[j].page /\ o[i].level = "H2" /\ o[j].level = "H1"

(***************************************************************************)
(* C7: title detection over a first page's lines returns the first trimmed *)
(* line that is non-empty, longer than 3 characters and not purely         *)
(* numeric, and the empty string when no line qualifies.                   *)
(***************************************************************************)
LongEnough(l) == l # "" /\ Len(l) > 3

PurelyNumeric(l) == \A k \in 1..Len(l) : Ch(l, k) \in Digit

Qualifies(l) == LongEnough(l) /\ ~PurelyNumeric(l)

\* t is the first line of the text that P holds of, or "" when there is none
FirstLineThat(P(_), txt, t) ==
    LET ls == Lines(txt)
    IN  \/ \E i \in 1..Len(ls) : P(ls[i]) /\ t = ls[i] /\ \A j \in 1..(i - 1) : ~P(ls[j])
        \/ t = "" /\ \A i \in 1..Len(ls) : ~P(ls[i])

\* C7 as stated: at every call site
C7_TitleAtEverySite ==
    titles.detected =>
        /\ FirstLineThat(Qualifies, text, titles.rich_pp)
        /\ FirstLineThat(Qualifies, text, titles.scan_pp)
        /\ FirstLineThat(Qualifies, text, titles.rich_vw)
        /\ FirstLineThat(Qualifies, text, titles.scan_vw)

\* C7 as amended: process_pdfs.py skips purely numeric lines at both of its
\* call sites; views.py takes the first trimmed line longer than 3
\* characters at both of its call sites, purely numeric or not
C7_TitlePerModule ==
    titles.detected =>
        /\ FirstLineThat(Qualifies, text, titles.rich_pp)
        /\ FirstLineThat(Qualifies, text, titles.scan_pp)
        /\ FirstLineThat(LongEnough, text, titles.rich_vw)
        /\ FirstLineThat(LongEnough, text, titles.scan_vw)

\* a text whose first line of more than 3 characters is a number and which
\* has a qualifying line after it
C7_Witness ==
    /\ titles.detected
    /\ PurelyNumeric(titles.rich_vw) /\ LongEnough(titles.rich_vw)
    /\ titles.rich_pp # "" /\ titles.scan_pp = titles.rich_pp
    /\ titles.scan_vw = titles.rich_vw

(***************************************************************************)
(* C10: numbered headings are classified by depth in the primary and in    *)
(* the reduced cascade: a one-level number, whitespace and a capital       *)
(* letter is H1, a two-level number H2, a three-level number H3; no line   *)
(* matches two of the three patterns, so their order does not matter.      *)
(***************************************************************************)
DigitsAt(l, a, b) == a <= b /\ b <= Len(l) /\ \A k \in a..b : Ch(l, k) \in Digit
SpacesAt(l, a, b) == a <= b /\ b <= Len(l) /\ \A k \in a..b : Ch(l, k) \in Space
IsAt(l, a, C) == a <= Len(l) /\ Ch(l, a) \in C

NumberedOne(l) ==
    \E i \in 1..Len(l) :
        /\ DigitsAt(l, 1, i) /\ IsAt(l, i + 1, {"."})
        /\ \E j \in (i + 2)..Len(l) : SpacesAt(l, i + 2, j) /\ IsAt(l, j + 1, Upper)

NumberedTwo(l) ==
    \E i \in 1..Len(l) :
        /\ DigitsAt(l, 1, i) /\ IsAt(l, i + 1, {"."})
        /\ \E m \in (i + 2)..Len(l) :
              /\ DigitsAt(l, i + 2, m)
              /\ \E j \in (m + 1)..Len(l) :
                    SpacesAt(l, m + 1, j) /\ IsAt(l, j + 1, Upper)

NumberedThree(l) ==
    \E i \in 1..Len(l) :
        /\ DigitsAt(l, 1, i) /\ IsAt(l, i + 1, {"."})
        /\ \E m \in (i + 2)..Len(l) :
              /\ DigitsAt(l, i + 2, m) /\ IsAt(l, m + 1, {"."})
              /\ \E n \in (m + 2)..Len(l) :
                    /\ DigitsAt(l, m + 2, n)
                    /\ \E j \in (n + 1)..Len(l) :
                          SpacesAt(l, n + 1, j) /\ IsAt(l, j + 1, Upper)

EveryCascade(level) ==
    /\ levels.detect_pp = level /\ levels.fallback_pp = level /\ levels.text_pp = level
    /\ levels.detect_vw = level /\ levels.fallback_vw = level /\ levels.text_vw = level

AtMostOne(a, b, c) == ~(a /\ b) /\ ~(a /\ c) /\ ~(b /\ c)

C10_NumberedByDepth ==
    levels.classified =>
        LET l == strip(line)
        IN  /\ NumberedOne(l) => EveryCascade("H1")
            /\ NumberedTwo(l) => EveryCascade("H2")
            /\ NumberedThree(l) => EveryCascade("H3")
            /\ re_match(PatNum1, l) <=> NumberedOne(l)
            /\ re_match(PatNum2, l) <=> NumberedTwo(l)
            /\ re_match(PatNum3, l) <=> NumberedThree(l)
            /\ AtMostOne(re_match(PatNum1, l), re_match(PatNum2, l), re_match(PatNum3, l))
            /\ AtMostOne(re_match(PatNum1Bare, l), re_match(PatNum2Bare, l),
                         re_match(PatNum3Bare, l))

\* a typed three-level numbered line, classified
C10_Witness ==
    /\ levels.classified
    /\ line \notin ExampleLines
    /\ NumberedThree(strip(line))
    /\ levels.detect_pp = "H3"

(***************************************************************************)
(* C11: in the primary cascade a title-case line of length 5..100 that     *)
(* matched no earlier rule is H1 if it contains, in any letter case, one   *)
(* of introduction, conclusion, overview, summary, abstract, and H2        *)
(* otherwise.                                                              *)
(***************************************************************************)
InLength(l, lo, hi) == lo <= Len(l) /\ Len(l) <= hi

HasWord(l, words) == \E w \in words : contains(lower(l), w)

H1Words == {"introduction", "conclusion", "overview", "summary", "abstract"}

\* rules 1..3 of the cascade of process_pdfs.py
EarlierRule(l) ==
    \/ NumberedOne(l) \/ NumberedTwo(l) \/ NumberedThree(l)
    \/ MatchChapter(l)
    \/ isupper(l) /\ InLength(l, 4, 100)

TitleCaseLevel(l) == IF HasWord(l, H1Words) THEN "H1" ELSE "H2"

TitleCaseLine(l) == istitle(l) /\ InLength(l, 5, 100) /\ ~EarlierRule(l)

\* C11 as stated: the rule holds at every call site of the primary cascade
C11_TitleCaseAtEverySite ==
    levels.classified =>
        LET l == strip(line)
        IN  TitleCaseLine(l) =>
                /\ levels.detect_pp = TitleCaseLevel(l)
                /\ levels.detect_vw = TitleCaseLevel(l)

\* the rules that precede title case in the cascade of views.py
EarlierRuleViews(l) ==
    \/ re_match(PatNum1Bare, l) \/ re_match(PatNum2Bare, l) \/ re_match(PatNum3Bare, l)
    \/ isupper(l) /\ Len(l) > 3

KeywordsViews ==
    {"chapter", "section", "introduction", "conclusion", "overview", "summary"}

\* C11, amended: the rule holds in process_pdfs.py; in views.py a title-case
\* line of length 10..100 that matched no earlier rule is H2 whatever it
\* contains, and a shorter one is H2 only if it contains one of chapter,
\* section, introduction, conclusion, overview, summary
C11_TitleCasePerModule ==
    levels.classified =>
        LET l == strip(line)
        IN  /\ TitleCaseLine(l) => levels.detect_pp = TitleCaseLevel(l)
            /\ istitle(l) /\ ~EarlierRuleViews(l) =>
                  levels.detect_vw =
                     IF InLength(l, 10, 100) \/ HasWord(l, KeywordsViews)
                     THEN "H2" ELSE None

\* the spec's example with a keyword, classified: H1 in one module, H2 in
\* the other
C11_Witness ==
    /\ levels.classified
    /\ line = "Conclusion And Future Work"
    /\ TitleCaseLine(line)
    /\ levels.detect_pp = "H1"
    /\ levels.detect_vw = "H2"

(***************************************************************************)
(* C12: a line that matches none of rules 1..6 of the primary cascade      *)
(* (numbered, Chapter/Section/Part + number, all caps of length 4..100,    *)
(* title case of length 5..100, Roman numeral, single-letter section)      *)
(* produces no outline entry; in particular "Hi" and a lower-case sentence *)
(* that contains "section" or "summary" are not in the outline.            *)
(***************************************************************************)
RomanLine(l) ==
    \E i \in 1..Len(l) :
        /\ \A k \in 1..i : Ch(l, k) \in {"I", "V", "X"}
        /\ IsAt(l, i + 1, {"."})
        /\ \E j \in (i + 2)..Len(l) : SpacesAt(l, i + 2, j) /\ IsAt(l, j + 1, Upper)

LetterLine(l) ==
    /\ IsAt(l, 1, Upper) /\ IsAt(l, 2, {"."})
    /\ \E j \in 3..Len(l) : SpacesAt(l, 3, j) /\ IsAt(l, j + 1, Upper)

AnyRule(l) ==
    \/ EarlierRule(l)
    \/ istitle(l) /\ InLength(l, 5, 100)
    \/ RomanLine(l)
    \/ LetterLine(l)

\* C12 as stated: no entry at any call site of the primary cascade
C12_NoRuleNoEntryAtEverySite ==
    levels.classified =>
        (~AnyRule(strip(line)) => levels.detect_pp = None /\ levels.detect_vw = None)

AnyRuleViews(l) ==
    \/ EarlierRuleViews(l)
    \/ istitle(l) /\ InLength(l, 10, 100)
    \/ HasWord(l, KeywordsViews)

\* C12, amended: a line that matches none of rules 1..6 produces no entry in
\* process_pdfs.py; in views.py the rules are a number with a dot and
\* whitespace, all caps of length over 3, title case of length 10..100, and a
\* keyword anywhere in the line, so that a lower-case sentence containing
\* "section" or "summary" is an H2 entry there
C12_NoRuleNoEntryPerModule ==
    levels.classified =>
        LET l == strip(line)
        IN  /\ ~AnyRule(l) => levels.detect_pp = None
            /\ ~AnyRuleViews(l) => levels.detect_vw = None
            /\ ~EarlierRuleViews(l) /\ HasWord(l, KeywordsViews) =>
                  levels.detect_vw = "H2"

\* the lower-case sentence with keywords, classified
C12_Witness ==
    /\ levels.classified
    /\ line = "see section 2 for the summary"
    /\ ~AnyRule(line)
    /\ levels.detect_pp = None
    /\ levels.detect_vw = "H2"

(***************************************************************************)
(* C16: every line to which the reduced cascade (extract_headings_fallback *)
(* or extract_headings_from_text) assigns a level is assigned the same     *)
(* level by the primary cascade of the same module.                        *)
(***************************************************************************)
Subsumed(reduced, primary) == reduced # None => primary = reduced

C16_ReducedSubsumed ==
    levels.classified =>
        /\ Subsumed(levels.fallback_pp, levels.detect_pp)
        /\ Subsumed(levels.text_pp, levels.detect_pp)
        /\ Subsumed(levels.fallback_vw, levels.detect_vw)
        /\ Subsumed(levels.text_vw, levels.detect_vw)

\* a typed all-caps line of two words, classified H1 by the reduced cascades
C16_Witness ==
    /\ levels.classified
    /\ line \notin ExampleLines
    /\ \E i \in 2..(Len(line) - 1) : Ch(line, i) = " "
    /\ levels.fallback_pp = "H1" /\ levels.fallback_vw = "H1"
    /\ levels.text_pp = "H1" /\ levels.text_vw = "H1"
    /\ levels.detect_pp = "H1" /\ levels.detect_vw = "H1"

(***************************************************************************)
(* C14: the font-size histogram has no effect on the result: two pages     *)
(* with the same extracted text whose glyph records differ in size values  *)
(* and in count get the same heading list from extract_headings_from_page. *)
(* Every page is compared with the page of the same text that has no glyph *)
(* records, so any two pages of one text agree.                            *)
(***************************************************************************)
C14_HistogramNoEffect ==
    found.extracted =>
        /\ found.sized_pp = found.bare_pp
        /\ found.sized_vw = found.bare_vw

\* a page with more than two font sizes and with headings, extracted by the
\* primary cascade of both modules
C14_Witness ==
    /\ found.extracted
    /\ Len(sorted_sizes_of(page_chars)) > 2
    /\ found.sized_pp.used = "primary" /\ found.sized_pp.value # <<>>
    /\ found.sized_vw.used = "primary" /\ found.sized_vw.value # <<>>

(***************************************************************************)
(* C15: for any page count and any combination of backend failures,        *)
(* extraction terminates, and it ends in exactly one of three states: a    *)
(* Document built entirely by the rich path, a Document built entirely by  *)
(* the plain path, or the failure Document with an empty outline; the      *)
(* pages are passed over at most once under the rich backend and then at   *)
(* most once under the plain backend.                                      *)
(***************************************************************************)
PageEvents(backend) == Events(backend, "page")

\* one pass: the page events of a backend are pages 1, 2, ... in order
OnePass(backend) ==
    /\ \A i, j \in PageEvents(backend) : i < j => log[i].page < log[j].page
    /\ \A i \in PageEvents(backend) :
          log[i].page = Cardinality({j \in PageEvents(backend) : j <= i})

RichThenPlain ==
    \A i, j \in DOMAIN log :
        (log[i].backend = "rich" /\ log[j].backend = "plain") => i < j

AllPages(backend) ==
    {log[i].page : i \in {j \in PageEvents(backend) : ~log[j].propagated}}
        = 1..Len(pdf.pages)

PrimaryOfPage(n) ==
    LET page == [extract_text |-> <<Ok(pdf.pages[n].text), Ok(pdf.pages[n].text)>>,
                 chars |-> Ok(pdf.pages[n].chars)]
    IN  IF site = "process_pdfs" THEN extract_headings_from_page_pp(page, n).value
        ELSE extract_headings_from_page_vw(page, n).value

BuiltByRich ==
    /\ result.kind = "return"
    /\ \A i \in DOMAIN log : log[i].backend = "rich" /\ ~log[i].propagated
    /\ AllPages("rich")
    /\ \A k \in DOMAIN result.value.outline :
          LET h == result.value.outline[k]
          IN  h.page \in 1..Len(pdf.pages) /\ h \in Range(PrimaryOfPage(h.page))

BuiltByPlain ==
    /\ result.kind = "return"
    /\ \E i \in Events("plain", "open") : ~log[i].failed
    /\ \A i \in DOMAIN log : log[i].backend = "plain" => ~log[i].propagated
    /\ AllPages("plain")
    /\ result.value.outline = ReducedFrom(1)

FailureDocument ==
    /\ result.kind = "return"
    /\ result.value = [title |-> "Error extracting title", outline |-> <<>>]
    /\ log # <<>>
    /\ log[Len(log)].backend = "plain" /\ log[Len(log)].propagated

C15_Terminal ==
    /\ OnePass("rich") /\ OnePass("plain") /\ RichThenPlain
    /\ Done =>
          /\ BuiltByRich \/ BuiltByPlain \/ FailureDocument
          /\ AtMostOne(BuiltByRich, BuiltByPlain, FailureDocument)

C15_TerminatesInOneOfThree == <>Done /\ []C15_Terminal

\* the failure Document after the rich backend gave up on a later page and
\* the plain backend failed on a page
C15_Witness ==
    /\ Done /\ FailureDocument
    /\ \E i \in PageEvents("rich") : log[i].propagated /\ log[i].page > 1
    /\ \E i \in PageEvents("plain") : log[i].propagated

(***************************************************************************)
(* C17: the cleanup command with --dry-run deletes nothing: the files of   *)
(* the output directory are the same after the run, and the count it       *)
(* reports is the number of .json files older than the cutoff that a run   *)
(* without --dry-run on the same directory would delete; without --dry-run *)
(* only .json files with a modification time older than the cutoff are     *)
(* removed.                                                                *)
(***************************************************************************)
JsonNames == {"a.json", "b.json"}

\* the run went through the loop and wrote its summary
Finished == phase = "done" /\ output_dir.exists

Removed == DOMAIN at_start \ DOMAIN output_dir.files

OlderThanCutoff(entry, days) ==
    ~entry.mtime.raised /\ now - entry.mtime.value > days

OldJson(files, days) ==
    {n \in DOMAIN files \cap JsonNames : OlderThanCutoff(files[n], days)}

DryRunDeletesNothing ==
    (Finished /\ options.dry_run) => output_dir.files = at_start

OnlyOldJsonRemoved ==
    (Finished /\ ~options.dry_run) =>
        /\ Removed \subseteq OldJson(at_start, options.days)
        /\ \A n \in DOMAIN output_dir.files :
              n \in DOMAIN at_start /\ output_dir.files[n] = at_start[n]

\* this run deleted for real, and the run before it was a dry run on the
\* same directory with the same --days
RealAfterDry ==
    /\ Finished /\ ~options.dry_run
    /\ previous.ran /\ previous.phase = "done"
    /\ previous.options = [options EXCEPT !.dry_run = TRUE]
    /\ previous.at_start = at_start

LastLine(out) == out[Len(out)]

\* C17 as stated: the dry run's count is the number of files the real run
\* deletes
C17_DryRunCountsDeletions ==
    /\ DryRunDeletesNothing
    /\ OnlyOldJsonRemoved
    /\ RealAfterDry =>
          LastLine(previous.stdout) = would_delete_files(Cardinality(Removed))

\* C17, amended: the dry run's count is the number of .json files older than
\* the cutoff whose modification time can be read; the real run deletes those
\* of them that os.remove can remove and reports how many it deleted, so the
\* two numbers differ by the number of removals that raised
C17_DryRunCountsOldJson ==
    /\ DryRunDeletesNothing
    /\ OnlyOldJsonRemoved
    /\ (Finished /\ options.dry_run) =>
          LastLine(stdout) =
              would_delete_files(Cardinality(OldJson(at_start, options.days)))
    /\ (Finished /\ ~options.dry_run) =>
          /\ Removed = {n \in OldJson(at_start, options.days) : at_start[n].removable}
          /\ LastLine(stdout) = deleted_files(Cardinality(Removed), options.days)
    /\ RealAfterDry =>
          LastLine(previous.stdout) =
              would_delete_files(
                  Cardinality(Removed) +
                  Cardinality({n \in OldJson(at_start, options.days) :
                                  ~at_start[n].removable}))

\* a real run after a dry run of the same directory: one old .json file
\* deleted, one old .json file that could not be removed, and an old file
\* that is not a .json file still there
C17_Witness ==
    /\ RealAfterDry
    /\ Cardinality(Removed) = 1
    /\ \E n \in OldJson(at_start, options.days) : n \in DOMAIN output_dir.files
    /\ \E n \in DOMAIN output_dir.files \ JsonNames :
          OlderThanCutoff(output_dir.files[n], options.days)
    /\ LastLine(previous.stdout) = would_delete_files(2)

====
